---- MODULE Spec2Model ----
(***************************************************************************)
(* Model of the VIPS image-compression action: runAction (index.ts),       *)
(* GitHubClient (github.client.ts) and VIPS.compress (vips.ts).            *)
(*                                                                         *)
(* Paths, refs and file endings are strings; the string helpers below      *)
(* compute what the JavaScript string methods used by the source compute.  *)
(***************************************************************************)
EXTENDS Integers, Sequences, FiniteSets, TLC

VARIABLES
  pc,               \* position of runAction (the awaited step it is suspended at)
  fileEndings,      \* GitHubClient.#fileEndings (array)
  commitMessage,    \* GitHubClient.#commitMessage
  images,           \* runAction: images (result of listAllImageFiles)
  idx,              \* runAction: 1-based position of the for..of loop
  outFile,          \* VIPS.compress: outFile of the current call
  procs,            \* child processes spawned by compress that have not closed
  spawned,          \* the images spawn('vips', ...) was called for, in order
  statsDone,        \* the FS.getFileStats promises that resolved: <<image, which>>
  sizeBefore,       \* runAction: sizeBefore of the current iteration
  sizeAfter,        \* runAction: sizeAfter of the current iteration
  compressedImages, \* runAction: compressedImages
  errKind,          \* what runAction's promise rejected with ("none" while it has not)
  errCode,          \* the value passed to reject(c) by the close handler
  closeCause,       \* why the last child process closed (environment, not seen by the code)
  calls,            \* the Octokit REST calls issued so far, in order
  imageBlobs,       \* createCommit: imageBlobs
  treeSha,          \* createCommit: tree.data.sha
  commitSha,        \* createCommit: commit.data.sha
  refs,             \* createCommit: refs.data
  refExists,        \* createCommit: refExists
  defaultBranch,    \* upsertPullRequest: defaultBranch
  existingPRs,      \* upsertPullRequest: existingPRs.data
  fpath,            \* FilterSpec: the path handed to #isImageFile
  fresult,          \* FilterSpec: <<r>> once #isImageFile returned r, <<>> before
  echanges,         \* EnumSpec: the change records the host answered with
  emode,            \* EnumSpec: which enumeration is run, and its includeUnchanged
  eresult,          \* EnumSpec: <<r>> once the enumeration returned r, <<>> before
  qin,              \* QuoteSpec: imagePath of compress
  qout,             \* QuoteSpec: outFile of compress
  qargs             \* QuoteSpec: <<a>> once compress built its args a, <<>> before

vars == <<pc, fileEndings, commitMessage, images, idx, outFile, procs, spawned, statsDone, sizeBefore,
          sizeAfter, compressedImages, errKind, errCode, closeCause, calls,
          imageBlobs, treeSha, commitSha, refs, refExists, defaultBranch, existingPRs,
          fpath, fresult, echanges, emode, eresult, qin, qout, qargs>>

----------------------------------------------------------------------------
(* Bounds of the model *)

MaxFiles == 2
MaxSize == 2
MaxPRs == 2
MaxExitCode == 1
MaxPathLen == 5
MaxThreshold == 2
MaxChanges == 2
MaxQuoteLen == 3

----------------------------------------------------------------------------
(* JavaScript string helpers *)

CharAt(s, i) == SubSeq(s, i, i)

\* String.prototype.lastIndexOf(c), 1-based; 0 when c does not occur
LastIndexOf(s, c) ==
  LET hits == {i \in 1..Len(s) : CharAt(s, i) = c}
  IN IF hits = {} THEN 0 ELSE CHOOSE i \in hits : \A j \in hits : j <= i

\* String.prototype.indexOf(c), 1-based; 0 when c does not occur
IndexOf(s, c) ==
  LET hits == {i \in 1..Len(s) : CharAt(s, i) = c}
  IN IF hits = {} THEN 0 ELSE CHOOSE i \in hits : \A j \in hits : i <= j

LowerChar(c) ==
  CASE c = "A" -> "a" [] c = "G" -> "g" [] c = "J" -> "j"
    [] c = "N" -> "n" [] c = "P" -> "p" [] OTHER -> c

RECURSIVE toLowerCase(_)
toLowerCase(s) ==
  IF s = "" THEN "" ELSE LowerChar(Head(s)) \o toLowerCase(Tail(s))

\* s.trim().length = 0
IsBlank(s) == \A i \in 1..Len(s) : CharAt(s, i) = " "

\* s.split(sep), sep a single character: never an empty array
RECURSIVE split(_, _)
split(s, sep) ==
  LET i == IndexOf(s, sep)
  IN IF i = 0 THEN <<s>>
     ELSE <<SubSeq(s, 1, i - 1)>> \o split(SubSeq(s, i + 1, Len(s)), sep)

\* s.replace(/,/g, '')
RECURSIVE removeCommas(_)
removeCommas(s) ==
  IF s = "" THEN ""
  ELSE (IF Head(s) = "," THEN "" ELSE Head(s)) \o removeCommas(Tail(s))

\* Array.prototype.includes
includes(arr, x) == \E i \in 1..Len(arr) : arr[i] = x

\* arr.filter((e) => e.trim().length > 0)
RECURSIVE filterNonBlank(_)
filterNonBlank(arr) ==
  IF arr = <<>> THEN <<>>
  ELSE (IF IsBlank(Head(arr)) THEN <<>> ELSE <<Head(arr)>>) \o filterNonBlank(Tail(arr))

RECURSIVE StringsUpTo(_, _)
StringsUpTo(alphabet, n) ==
  IF n = 0 THEN {""}
  ELSE LET shorter == StringsUpTo(alphabet, n - 1)
       IN shorter \cup {s \o c : s \in shorter, c \in alphabet}

----------------------------------------------------------------------------
(* GitHubClient: configuration *)

DefaultFileEndings == <<"png", "jpeg", "jpg", "gif">>

DefaultCommitMessage == "compress images"

\* the fileEndings part of the constructor; input "" when the option is unset
constructorFileEndings(input) ==
  IF input # "" /\ ~IsBlank(removeCommas(input))
  THEN LET parts == filterNonBlank(split(input, ","))
       IN [i \in 1..Len(parts) |-> toLowerCase(parts[i])]
  ELSE DefaultFileEndings

\* the commitMessage part of the constructor
constructorCommitMessage(input) ==
  IF input # "" /\ ~IsBlank(input) THEN input ELSE DefaultCommitMessage

processingOptions ==
  [quality |-> 80, stripMetadata |-> TRUE, threshold |-> 0,
   pngCompressionLevel |-> 9, jpegProgressive |-> TRUE, branch |-> "vips"]

\* @actions/github context of the run
ContextOwner == "octo"
ContextRepo == "site"
ContextSha == "sha0"

\* process.env.GITHUB_WORKSPACE
workspace == "/w"

----------------------------------------------------------------------------
(* Path Filter: GitHubClient.#isImageFile, #resolveImageFilePaths *)

\* filePath.split('.').pop(): the last element of a never-empty array
splitPop(filePath) ==
  LET parts == split(filePath, ".") IN parts[Len(parts)]

isImageFile(endings, filePath) ==
  includes(endings, toLowerCase(splitPop(filePath)))

\* resolve(join(workspace, f)) for a repository-relative path f
resolveLocal(f) == workspace \o "/" \o f

RECURSIVE resolveImageFilePaths(_, _)
resolveImageFilePaths(endings, changes) ==
  IF changes = <<>> THEN <<>>
  ELSE (IF isImageFile(endings, Head(changes).filename)
        THEN <<[repoPath |-> Head(changes).filename,
                localPath |-> resolveLocal(Head(changes).filename)]>>
        ELSE <<>>)
       \o resolveImageFilePaths(endings, Tail(changes))

----------------------------------------------------------------------------
(* Change Enumerator: listChangedImageFiles, #listCommitImageFiles, #listPrImages *)

\* a filter that keeps everything but removed files, whatever the scope
keepsChangeNotRemoved(status, includeUnchanged) == status # "removed"

\* the filter predicate of #listCommitImageFiles
keepsChange(status, includeUnchanged) ==
  IF includeUnchanged
  THEN status # "removed"
  ELSE status = "added" \/ status = "changed"

\* commit.data.files.filter(...) of #listCommitImageFiles
RECURSIVE filterCommitFiles(_, _)
filterCommitFiles(files, includeUnchanged) ==
  IF files = <<>> THEN <<>>
  ELSE (IF keepsChange(Head(files).status, includeUnchanged)
        THEN <<Head(files)>> ELSE <<>>)
       \o filterCommitFiles(Tail(files), includeUnchanged)

\* pr.data.filter(...) of #listPrImages
RECURSIVE filterPrFiles(_)
filterPrFiles(files) ==
  IF files = <<>> THEN <<>>
  ELSE (IF Head(files).status = "added" \/ Head(files).status = "changed"
        THEN <<Head(files)>> ELSE <<>>)
       \o filterPrFiles(Tail(files))

\* #listCommitImageFiles, given the answer of repos.getCommit
listCommitImageFiles(endings, filesDefined, files, includeUnchanged) ==
  IF ~filesDefined THEN <<>>
  ELSE resolveImageFilePaths(endings, filterCommitFiles(files, includeUnchanged))

\* #listPrImages, given the answer of pulls.listFiles
listPrImages(endings, files) ==
  resolveImageFilePaths(endings, filterPrFiles(files))

\* listChangedImageFiles: the pull request of the event when there is one,
\* the triggering commit otherwise
listChangedImageFiles(endings, pullRequest, filesDefined, files) ==
  IF ~pullRequest
  THEN listCommitImageFiles(endings, filesDefined, files, FALSE)
  ELSE listPrImages(endings, files)

----------------------------------------------------------------------------
(* VIPS: extname, #vipsArgs, #quotePath, the argument string of compress *)

placeholderIn == "{{in}}"
placeholderOut == "{{out}}"

\* path.extname (posix)
extname(path) ==
  LET base == SubSeq(path, LastIndexOf(path, "/") + 1, Len(path))
      dot == LastIndexOf(base, ".")
  IN IF dot = 0 \/ dot = 1 \/ base = ".." THEN "" ELSE SubSeq(base, dot, Len(base))

\* Array.prototype.join(' ')
RECURSIVE joinSpace(_)
joinSpace(arr) ==
  IF arr = <<>> THEN ""
  ELSE IF Len(arr) = 1 THEN arr[1]
  ELSE arr[1] \o " " \o joinSpace(Tail(arr))

\* a switch whose default branch falls back to the JPEG arguments
vipsSupportsAny(extension) == TRUE

\* whether #vipsArgs returns (TRUE) or throws "Unsupported format" (FALSE)
vipsSupports(extension) ==
  toLowerCase(extension) \in {".png", ".jpeg", ".jpg"}

vipsArgs(extension, config) ==
  IF toLowerCase(extension) = ".png"
  THEN joinSpace(<<"pngsave", placeholderIn, placeholderOut,
                   "--compression=" \o ToString(config.pngCompressionLevel),
                   "--Q=" \o ToString(config.quality),
                   IF config.stripMetadata THEN "--strip=1" ELSE "",
                   "--interlace=true", "--palette=true">>)
  ELSE joinSpace(<<"jpegsave", placeholderIn, placeholderOut,
                   "--Q=" \o ToString(config.quality),
                   IF config.jpegProgressive THEN "--interlace=1" ELSE "",
                   IF config.stripMetadata THEN "--strip=1" ELSE "">>)

\* path.replace(/'/g, "'\\''")
RECURSIVE escapeQuotes(_)
escapeQuotes(path) ==
  IF path = "" THEN ""
  ELSE (IF Head(path) = "'" THEN "'\\''" ELSE Head(path)) \o escapeQuotes(Tail(path))

quotePath(path) == "'" \o escapeQuotes(path) \o "'"

\* first position of pat in s, 1-based; 0 when it does not occur
IndexOfString(s, pat) ==
  LET hits == {i \in 1..(Len(s) - Len(pat) + 1) : SubSeq(s, i, i + Len(pat) - 1) = pat}
  IN IF hits = {} THEN 0 ELSE CHOOSE i \in hits : \A j \in hits : i <= j

\* the replacement patterns String.prototype.replace expands in a replacement
\* string when the pattern is a string: $$, $& and $' (the fourth one, dollar
\* backquote, inserts `before'; a backquote cannot be written in a string
\* here, so no path of the model holds one)
RECURSIVE expandReplacement(_, _, _, _)
expandReplacement(repl, matched, before, after) ==
  IF repl = "" THEN ""
  ELSE IF Head(repl) = "$" /\ Len(repl) >= 2 /\ CharAt(repl, 2) \in {"$", "&", "'"}
  THEN (CASE CharAt(repl, 2) = "$" -> "$"
          [] CharAt(repl, 2) = "&" -> matched
          [] OTHER -> after)
       \o expandReplacement(SubSeq(repl, 3, Len(repl)), matched, before, after)
  ELSE Head(repl) \o expandReplacement(Tail(repl), matched, before, after)

\* s.replace(pat, repl) with a string pattern: the first occurrence only
replace(s, pat, repl) ==
  LET i == IndexOfString(s, pat)
  IN IF i = 0 THEN s
     ELSE LET before == SubSeq(s, 1, i - 1)
              after == SubSeq(s, i + Len(pat), Len(s))
          IN before \o expandReplacement(repl, pat, before, after) \o after

\* the args string compress hands to spawn
compressArgs(imagePath, out, config) ==
  replace(replace(vipsArgs(extname(imagePath), config),
                  placeholderIn, quotePath(imagePath)),
          placeholderOut, quotePath(out))

\* FS.initializeEmptyTempFile(postfix): a fresh path ending in postfix
initializeEmptyTempFile(n, postfix) == "/tmp/tmp-" \o ToString(n) \o postfix

----------------------------------------------------------------------------
(* Inputs of a run: what the remote host, the file system and the child      *)
(* process may answer                                                      *)

\* entries the recursive tree of the triggering commit may hold
TreeEntries ==
  <<[hasPath |-> TRUE, path |-> "a.png"],
    [hasPath |-> TRUE, path |-> "b.JPG"],
    [hasPath |-> TRUE, path |-> "c.gif"],
    [hasPath |-> TRUE, path |-> "d.txt"],
    [hasPath |-> TRUE, path |-> "png"],
    [hasPath |-> FALSE, path |-> ""]>>

\* the elements of seq at the positions in S, in seq's order
RECURSIVE pick(_, _)
pick(seq, S) ==
  IF S = {} THEN <<>>
  ELSE LET i == CHOOSE k \in S : \A j \in S : k <= j
       IN <<seq[i]>> \o pick(seq, S \ {i})

TreeListings ==
  {pick(TreeEntries, S) :
     S \in {T \in SUBSET (1..Len(TreeEntries)) : Cardinality(T) <= MaxFiles}}

Sizes == 0..MaxSize

\* codes a child process exits with on its own
ExitCodes == 0..MaxExitCode

\* the code argument of 'close' when the child was terminated by a signal
\* (JavaScript null)
NullCode == -1

CloseCauses == {"exit", "timeout", "signal"}

head == "heads/" \o processingOptions.branch
ref == "refs/" \o head

\* answers of listMatchingRefs for `head': every ref that starts with it
RefListings ==
  SUBSET {ref, ref \o "-old"}

OpenPRs ==
  {[number |-> 1, owner |-> ContextOwner, repo |-> ContextRepo, ref |-> "vips"],
   [number |-> 2, owner |-> "fork", repo |-> ContextRepo, ref |-> "vips"],
   [number |-> 3, owner |-> ContextOwner, repo |-> "other", ref |-> "vips"],
   [number |-> 4, owner |-> ContextOwner, repo |-> ContextRepo, ref |-> "vips-2"]}

\* answers of pulls.list: lists of distinct pull requests
PRListings ==
  {l \in UNION {[1..n -> OpenPRs] : n \in 0..MaxPRs} :
     \A i, j \in 1..Len(l) : l[i] = l[j] => i = j}

----------------------------------------------------------------------------
(* runAction *)

Fail(kind) ==
  /\ pc' = "failed"
  /\ errKind' = kind

\* the run's state outside the enumeration
loopVars == <<idx, outFile, procs, spawned, statsDone, sizeBefore, sizeAfter,
              compressedImages, closeCause, errCode>>
commitVars == <<imageBlobs, treeSha, commitSha, refs, refExists>>
prVars == <<defaultBranch, existingPRs>>
filterVars == <<fpath, fresult>>
enumVars == <<echanges, emode, eresult>>
quoteVars == <<qin, qout, qargs>>
pureVars == <<filterVars, enumVars, quoteVars>>
configVars == <<fileEndings, commitMessage>>

\* runAction without its `No images found' return
ListAllImageFilesNoReturn(tree) ==
  /\ pc = "start"
  /\ calls' = Append(calls, [op |-> "getTree", ok |-> TRUE, tree_sha |-> ContextSha])
  /\ LET changes == [i \in 1..Len(tree) |->
                       [filename |-> IF tree[i].hasPath THEN tree[i].path ELSE "N/A"]]
     IN images' = resolveImageFilePaths(fileEndings, changes)
  /\ pc' = "loop"
  /\ UNCHANGED <<configVars, errKind, loopVars, commitVars, prVars, pureVars>>

\* listAllImageFiles: getTree, then the filter; `No images found' ends the run
ListAllImageFiles(tree) ==
  /\ pc = "start"
  /\ calls' = Append(calls, [op |-> "getTree", ok |-> TRUE, tree_sha |-> ContextSha])
  /\ LET changes == [i \in 1..Len(tree) |->
                       [filename |-> IF tree[i].hasPath THEN tree[i].path ELSE "N/A"]]
         found == resolveImageFilePaths(fileEndings, changes)
     IN /\ images' = found
        /\ pc' = IF Len(found) = 0 THEN "done" ELSE "loop"
  /\ UNCHANGED <<configVars, errKind, loopVars, commitVars, prVars, pureVars>>

ListAllImageFilesFails ==
  /\ pc = "start"
  /\ calls' = Append(calls, [op |-> "getTree", ok |-> FALSE, tree_sha |-> ContextSha])
  /\ Fail("ApiError")
  /\ UNCHANGED <<configVars, images, loopVars, commitVars, prVars, pureVars>>

\* compress, up to its first await: FS.initializeEmptyTempFile(extension)
CompressBegin ==
  /\ pc = "loop"
  /\ idx <= Len(images)
  /\ pc' = "tmpfile"
  /\ UNCHANGED <<configVars, images, errKind, calls, loopVars, commitVars,
                 prVars, pureVars>>

TempFileFails ==
  /\ pc = "tmpfile"
  /\ Fail("FsError")
  /\ UNCHANGED <<configVars, images, calls, loopVars, commitVars, prVars, pureVars>>

\* the temp file exists; #vipsArgs throws for the extension
CompressUnsupported ==
  /\ pc = "tmpfile"
  /\ ~vipsSupports(extname(images[idx].localPath))
  /\ outFile' = initializeEmptyTempFile(idx, extname(images[idx].localPath))
  /\ Fail("UnsupportedFormat")
  /\ UNCHANGED <<configVars, images, calls, idx, procs, spawned, statsDone, sizeBefore,
                 sizeAfter, compressedImages, closeCause, errCode, commitVars,
                 prVars, pureVars>>

\* compress that does not wait for 'close': the loop goes on while the child runs
CompressSpawnNoAwait ==
  /\ pc = "tmpfile"
  /\ vipsSupports(extname(images[idx].localPath))
  /\ LET out == initializeEmptyTempFile(idx, extname(images[idx].localPath))
     IN /\ outFile' = out
        /\ procs' = procs \cup
             {[image |-> idx,
               args |-> compressArgs(images[idx].localPath, out, processingOptions)]}
        /\ spawned' = Append(spawned, idx)
  /\ pc' = "loop"
  /\ idx' = idx + 1
  /\ UNCHANGED <<configVars, images, calls, errKind, statsDone, sizeBefore,
                 sizeAfter, compressedImages, closeCause, errCode, commitVars,
                 prVars, pureVars>>

\* the temp file exists; spawn('vips', [args]) and wait for 'close'
CompressSpawn ==
  /\ pc = "tmpfile"
  /\ vipsSupports(extname(images[idx].localPath))
  /\ LET out == initializeEmptyTempFile(idx, extname(images[idx].localPath))
     IN /\ outFile' = out
        /\ procs' = procs \cup
             {[image |-> idx,
               args |-> compressArgs(images[idx].localPath, out, processingOptions)]}
        /\ spawned' = Append(spawned, idx)
  /\ pc' = "running"
  /\ UNCHANGED <<configVars, images, calls, errKind, idx, statsDone, sizeBefore,
                 sizeAfter, compressedImages, closeCause, errCode, commitVars,
                 prVars, pureVars>>

\* a loop that catches the rejection of compress and goes on with the next image
ProcessCloseContinue(p, cause, c) ==
  /\ pc = "running"
  /\ p \in procs
  /\ p.image = idx
  /\ IF cause = "exit" THEN c \in ExitCodes ELSE c = NullCode
  /\ procs' = procs \ {p}
  /\ closeCause' = cause
  /\ IF c # 0
     THEN /\ errKind' = "reject"
          /\ errCode' = c
          /\ pc' = "loop"
          /\ idx' = idx + 1
     ELSE /\ pc' = "stats"
          /\ UNCHANGED <<errKind, errCode, idx>>
  /\ UNCHANGED <<configVars, images, calls, outFile, spawned, statsDone,
                 sizeBefore, sizeAfter, compressedImages, commitVars, prVars,
                 pureVars>>

\* the 'close' handler: resolve on code 0, reject(c) otherwise; on resolve
\* compress returns outFile and runAction starts both getFileStats calls
ProcessClose(p, cause, c) ==
  /\ pc = "running"
  /\ p \in procs
  /\ p.image = idx
  /\ IF cause = "exit" THEN c \in ExitCodes ELSE c = NullCode
  /\ procs' = procs \ {p}
  /\ closeCause' = cause
  /\ IF c # 0
     THEN /\ Fail("reject")
          /\ errCode' = c
     ELSE /\ pc' = "stats"
          /\ UNCHANGED <<errKind, errCode>>
  /\ UNCHANGED <<configVars, images, calls, idx, outFile, spawned, statsDone,
                 sizeBefore, sizeAfter, compressedImages, commitVars, prVars,
                 pureVars>>

\* one of the two getFileStats promises of Promise.all resolves
StatResolves(which, size) ==
  /\ pc = "stats"
  /\ <<idx, which>> \notin statsDone
  /\ statsDone' = statsDone \cup {<<idx, which>>}
  /\ IF which = "before"
     THEN sizeBefore' = size /\ UNCHANGED sizeAfter
     ELSE sizeAfter' = size /\ UNCHANGED sizeBefore
  /\ UNCHANGED <<pc, configVars, images, calls, errKind, idx, outFile, procs,
                 spawned, compressedImages, closeCause, errCode, commitVars,
                 prVars, pureVars>>

\* one of them rejects: Promise.all rejects
StatRejects ==
  /\ pc = "stats"
  /\ ~({<<idx, "before">>, <<idx, "after">>} \subseteq statsDone)
  /\ Fail("FsError")
  /\ UNCHANGED <<configVars, images, calls, loopVars, commitVars, prVars, pureVars>>

\* the loop body with its first test one off: equal sizes are kept
acceptsEqualSize(before, after, threshold) ==
  /\ ~(before < after)
  /\ ~(before - after < threshold)

\* the two `continue' tests of the loop body
accepts(before, after, threshold) ==
  /\ ~(before <= after)
  /\ ~(before - after < threshold)

\* a loop that publishes each kept result at once, inside the iteration
DecidePublishEach ==
  /\ pc = "stats"
  /\ {<<idx, "before">>, <<idx, "after">>} \subseteq statsDone
  /\ compressedImages' =
       IF accepts(sizeBefore, sizeAfter, processingOptions.threshold)
       THEN Append(compressedImages,
                   [repoPath |-> images[idx].repoPath, localPath |-> outFile,
                    sizeBefore |-> sizeBefore, sizeAfter |-> sizeAfter])
       ELSE compressedImages
  /\ idx' = idx + 1
  /\ pc' = IF accepts(sizeBefore, sizeAfter, processingOptions.threshold)
           THEN "createBlob" ELSE "loop"
  /\ sizeBefore' = 0
  /\ sizeAfter' = 0
  /\ UNCHANGED <<configVars, images, calls, errKind, outFile, procs, spawned,
                 statsDone, closeCause, errCode, commitVars, prVars, pureVars>>

\* Promise.all resolved: log, keep or discard the result, next iteration
Decide ==
  /\ pc = "stats"
  /\ {<<idx, "before">>, <<idx, "after">>} \subseteq statsDone
  /\ compressedImages' =
       IF accepts(sizeBefore, sizeAfter, processingOptions.threshold)
       THEN Append(compressedImages,
                   [repoPath |-> images[idx].repoPath, localPath |-> outFile,
                    sizeBefore |-> sizeBefore, sizeAfter |-> sizeAfter])
       ELSE compressedImages
  /\ idx' = idx + 1
  /\ pc' = "loop"
  /\ sizeBefore' = 0
  /\ sizeAfter' = 0
  /\ UNCHANGED <<configVars, images, calls, errKind, outFile, procs, spawned,
                 statsDone, closeCause, errCode, commitVars, prVars, pureVars>>

\* the loop is over: runAction calls createCommit(compressedImages)
LoopExit ==
  /\ pc = "loop"
  /\ idx > Len(images)
  /\ pc' = IF Len(compressedImages) = 0 THEN "createTree" ELSE "createBlob"
  /\ UNCHANGED <<configVars, images, calls, errKind, loopVars, commitVars,
                 prVars, pureVars>>

----------------------------------------------------------------------------
(* GitHubClient.createCommit *)

\* a REST call that rejects: the error propagates out of runAction
ApiFails(call) ==
  /\ calls' = Append(calls, call)
  /\ Fail("ApiError")

\* readFile of the next image rejects
ReadFileFails ==
  /\ pc = "createBlob"
  /\ Fail("FsError")
  /\ UNCHANGED <<configVars, images, calls, loopVars, commitVars, prVars, pureVars>>

\* a blob loop that files the entry under the local path of the compressed file
CreateBlobLocalPath(ok) ==
  /\ pc = "createBlob"
  /\ LET n == Len(imageBlobs) + 1
         image == compressedImages[n]
         call == [op |-> "createBlob", ok |-> ok, owner |-> ContextOwner,
                  repo |-> ContextRepo, content |-> <<"base64", image.localPath>>,
                  encoding |-> "base64",
                  result |-> IF ok THEN "blob" \o ToString(n) ELSE ""]
     IN IF ok
        THEN /\ calls' = Append(calls, call)
             /\ imageBlobs' = Append(imageBlobs,
                  [path |-> image.localPath, type |-> "blob", mode |-> "100644",
                   sha |-> call.result])
             /\ pc' = IF n = Len(compressedImages) THEN "createTree" ELSE "createBlob"
             /\ UNCHANGED errKind
        ELSE /\ ApiFails(call)
             /\ UNCHANGED imageBlobs
  /\ UNCHANGED <<configVars, images, loopVars, treeSha, commitSha, refs, refExists,
                 prVars, pureVars>>

\* readFile(image.localPath, base64), git.createBlob, imageBlobs.push
CreateBlob(ok) ==
  /\ pc = "createBlob"
  /\ LET n == Len(imageBlobs) + 1
         image == compressedImages[n]
         call == [op |-> "createBlob", ok |-> ok, owner |-> ContextOwner,
                  repo |-> ContextRepo, content |-> <<"base64", image.localPath>>,
                  encoding |-> "base64",
                  result |-> IF ok THEN "blob" \o ToString(n) ELSE ""]
     IN IF ok
        THEN /\ calls' = Append(calls, call)
             /\ imageBlobs' = Append(imageBlobs,
                  [path |-> image.repoPath, type |-> "blob", mode |-> "100644",
                   sha |-> call.result])
             /\ pc' = IF n = Len(compressedImages) THEN "createTree" ELSE "createBlob"
             /\ UNCHANGED errKind
        ELSE /\ ApiFails(call)
             /\ UNCHANGED imageBlobs
  /\ UNCHANGED <<configVars, images, loopVars, treeSha, commitSha, refs, refExists,
                 prVars, pureVars>>

\* git.createTree({base_tree: context.sha, tree: imageBlobs})
CreateTree(ok) ==
  /\ pc = "createTree"
  /\ LET call == [op |-> "createTree", ok |-> ok, owner |-> ContextOwner,
                  repo |-> ContextRepo, base_tree |-> ContextSha, tree |-> imageBlobs,
                  result |-> IF ok THEN "tree1" ELSE ""]
     IN IF ok
        THEN /\ calls' = Append(calls, call)
             /\ treeSha' = call.result
             /\ pc' = "createCommit"
             /\ UNCHANGED errKind
        ELSE /\ ApiFails(call)
             /\ UNCHANGED treeSha
  /\ UNCHANGED <<configVars, images, loopVars, imageBlobs, commitSha, refs,
                 refExists, prVars, pureVars>>

\* git.createCommit({tree, parents: [context.sha], message})
CreateCommit(ok) ==
  /\ pc = "createCommit"
  /\ LET call == [op |-> "createCommit", ok |-> ok, owner |-> ContextOwner,
                  repo |-> ContextRepo, tree |-> treeSha, parents |-> <<ContextSha>>,
                  message |-> commitMessage,
                  result |-> IF ok THEN "commit1" ELSE ""]
     IN IF ok
        THEN /\ calls' = Append(calls, call)
             /\ commitSha' = call.result
             /\ pc' = "listMatchingRefs"
             /\ UNCHANGED errKind
        ELSE /\ ApiFails(call)
             /\ UNCHANGED commitSha
  /\ UNCHANGED <<configVars, images, loopVars, imageBlobs, treeSha, refs,
                 refExists, prVars, pureVars>>

\* any listed ref counts as the branch
someRefListed(listed, name) == listed # {}

\* refs.data.some((r) => r.ref === ref)
someRefIs(listed, name) == \E r \in listed : r = name

\* git.listMatchingRefs({ref: head}) and the refExists test
ListMatchingRefs(ok, listed) ==
  /\ pc = "listMatchingRefs"
  /\ LET call == [op |-> "listMatchingRefs", ok |-> ok, owner |-> ContextOwner,
                  repo |-> ContextRepo, ref |-> head]
     IN IF ok
        THEN /\ calls' = Append(calls, call)
             /\ refs' = listed
             /\ refExists' = someRefIs(listed, ref)
             /\ pc' = "writeRef"
             /\ UNCHANGED errKind
        ELSE /\ ApiFails(call)
             /\ UNCHANGED <<refs, refExists>>
  /\ UNCHANGED <<configVars, images, loopVars, imageBlobs, treeSha, commitSha,
                 prVars, pureVars>>

\* the call git[refExists ? 'updateRef' : 'createRef'] is made with
refCall(exists, sha, ok) ==
  [op |-> IF exists THEN "updateRef" ELSE "createRef", ok |-> ok,
   owner |-> ContextOwner, repo |-> ContextRepo,
   ref |-> IF exists THEN head ELSE ref, sha |-> sha, force |-> TRUE]

\* a ref write whose failure is swallowed
WriteRefIgnoreFailure(ok) ==
  /\ pc = "writeRef"
  /\ calls' = Append(calls, refCall(refExists, commitSha, ok))
  /\ pc' = "getDefaultBranch"
  /\ UNCHANGED errKind
  /\ UNCHANGED <<configVars, images, loopVars, commitVars, prVars, pureVars>>

\* the ref write; on success createCommit returns and runAction calls
\* upsertPullRequest, whose first await is #getDefaultBranch
WriteRef(ok) ==
  /\ pc = "writeRef"
  /\ IF ok
     THEN /\ calls' = Append(calls, refCall(refExists, commitSha, ok))
          /\ pc' = "getDefaultBranch"
          /\ UNCHANGED errKind
     ELSE ApiFails(refCall(refExists, commitSha, ok))
  /\ UNCHANGED <<configVars, images, loopVars, commitVars, prVars, pureVars>>

----------------------------------------------------------------------------
(* GitHubClient.upsertPullRequest *)

\* (x).toFixed(2) for x = num / den >= 0
toFixed2(num, den) ==
  LET hundredths == (200 * num + den) \div (2 * den)
      frac == hundredths % 100
  IN ToString(hundredths \div 100) \o "."
       \o (IF frac < 10 THEN "0" ELSE "") \o ToString(frac)

\* #buildPRText: the lines joined by '\n', as a sequence; a table row is the
\* sequence of its cells (each cell is wrapped in Markdown code quotes, which
\* a string here cannot hold)
buildPRText(imageData) ==
  <<"Compressed Images:",
    "| Path | Previous Size (KB) | New Size (KB) | Diff |",
    "| --- | --- | --- | --- |">>
  \o [i \in 1..Len(imageData) |->
        <<imageData[i].repoPath, ToString(imageData[i].sizeBefore),
          ToString(imageData[i].sizeAfter),
          "-" \o toFixed2(100 * (imageData[i].sizeBefore - imageData[i].sizeAfter),
                          imageData[i].sizeBefore) \o "%">>]

\* #getDefaultBranch: repos.get
GetDefaultBranch(ok) ==
  /\ pc = "getDefaultBranch"
  /\ LET call == [op |-> "reposGet", ok |-> ok, owner |-> ContextOwner,
                  repo |-> ContextRepo]
     IN IF ok
        THEN /\ calls' = Append(calls, call)
             /\ defaultBranch' = "main"
             /\ pc' = "pullsList"
             /\ UNCHANGED errKind
        ELSE /\ ApiFails(call)
             /\ UNCHANGED defaultBranch
  /\ UNCHANGED <<configVars, images, loopVars, commitVars, existingPRs, pureVars>>

\* pulls.list({state: 'open', base: defaultBranch, head: branch})
PullsList(ok, prs) ==
  /\ pc = "pullsList"
  /\ LET call == [op |-> "pullsList", ok |-> ok, owner |-> ContextOwner,
                  repo |-> ContextRepo, state |-> "open", base |-> defaultBranch,
                  head |-> processingOptions.branch]
     IN IF ok
        THEN /\ calls' = Append(calls, call)
             /\ existingPRs' = prs
             /\ pc' = "pullsWrite"
             /\ UNCHANGED errKind
        ELSE /\ ApiFails(call)
             /\ UNCHANGED existingPRs
  /\ UNCHANGED <<configVars, images, loopVars, commitVars, defaultBranch, pureVars>>

\* a find that compares the branch name only
matchesBranchOnly(d) == d.ref = processingOptions.branch

\* the predicate of existingPRs.data.find
matches(d) ==
  /\ d.owner = ContextOwner
  /\ d.repo = ContextRepo
  /\ d.ref = processingOptions.branch

\* Array.prototype.find: the position of the first match, 0 for undefined
findMatchingPR(prs) ==
  LET hits == {i \in 1..Len(prs) : matches(prs[i])}
  IN IF hits = {} THEN 0 ELSE CHOOSE i \in hits : \A j \in hits : i <= j

\* matchingPR is set: pulls.update
PullsUpdate(ok) ==
  /\ pc = "pullsWrite"
  /\ findMatchingPR(existingPRs) # 0
  /\ LET call == [op |-> "pullsUpdate", ok |-> ok, owner |-> ContextOwner,
                  repo |-> ContextRepo,
                  pull_number |-> existingPRs[findMatchingPR(existingPRs)].number,
                  body |-> buildPRText(compressedImages), title |-> "Compress Images"]
     IN IF ok
        THEN /\ calls' = Append(calls, call)
             /\ pc' = "done"
             /\ UNCHANGED errKind
        ELSE ApiFails(call)
  /\ UNCHANGED <<configVars, images, loopVars, commitVars, prVars, pureVars>>

\* matchingPR is undefined and existingPRs.data[0] exists: pulls.create
PullsCreate(ok) ==
  /\ pc = "pullsWrite"
  /\ findMatchingPR(existingPRs) = 0
  /\ Len(existingPRs) > 0
  /\ LET call == [op |-> "pullsCreate", ok |-> ok, owner |-> ContextOwner,
                  repo |-> ContextRepo, pull_number |-> existingPRs[1].number,
                  body |-> buildPRText(compressedImages), base |-> defaultBranch,
                  head |-> processingOptions.branch, title |-> "Compress Images"]
     IN IF ok
        THEN /\ calls' = Append(calls, call)
             /\ pc' = "done"
             /\ UNCHANGED errKind
        ELSE ApiFails(call)
  /\ UNCHANGED <<configVars, images, loopVars, commitVars, prVars, pureVars>>

\* matchingPR is undefined and existingPRs.data is empty: evaluating
\* existingPRs.data[0].number for the argument of pulls.create throws
PullsCreateThrows ==
  /\ pc = "pullsWrite"
  /\ findMatchingPR(existingPRs) = 0
  /\ Len(existingPRs) = 0
  /\ Fail("TypeError")
  /\ UNCHANGED <<configVars, images, calls, loopVars, commitVars, prVars, pureVars>>

----------------------------------------------------------------------------
(* The run *)

\* inputs of the commit-message option ("" when unset)
CommitMessageInputs == {"", "  ", "squash pngs"}

\* runAction has not run
RunIdle ==
  /\ images = <<>>
  /\ idx = 1
  /\ outFile = ""
  /\ procs = {}
  /\ spawned = <<>>
  /\ statsDone = {}
  /\ sizeBefore = 0
  /\ sizeAfter = 0
  /\ compressedImages = <<>>
  /\ errKind = "none"
  /\ errCode = 0
  /\ closeCause = "none"
  /\ calls = <<>>
  /\ imageBlobs = <<>>
  /\ treeSha = ""
  /\ commitSha = ""
  /\ refs = {}
  /\ refExists = FALSE
  /\ defaultBranch = ""
  /\ existingPRs = <<>>

FilterIdle == fpath = "" /\ fresult = <<>>

EnumIdle ==
  /\ echanges = <<>>
  /\ emode = [op |-> "none", pullRequest |-> FALSE, filesDefined |-> FALSE]
  /\ eresult = <<>>

QuoteIdle == qin = "" /\ qout = "" /\ qargs = <<>>

Init ==
  /\ pc = "start"
  /\ fileEndings = constructorFileEndings("")
  /\ \E input \in CommitMessageInputs :
       commitMessage = constructorCommitMessage(input)
  /\ RunIdle
  /\ FilterIdle
  /\ EnumIdle
  /\ QuoteIdle

Next ==
  \/ \E tree \in TreeListings : ListAllImageFiles(tree)
  \/ ListAllImageFilesFails
  \/ CompressBegin
  \/ TempFileFails
  \/ CompressUnsupported
  \/ CompressSpawn
  \/ \E p \in procs, cause \in CloseCauses, c \in ExitCodes \cup {NullCode} :
       ProcessClose(p, cause, c)
  \/ \E which \in {"before", "after"}, size \in Sizes : StatResolves(which, size)
  \/ StatRejects
  \/ Decide
  \/ LoopExit
  \/ ReadFileFails
  \/ \E ok \in BOOLEAN : CreateBlob(ok)
  \/ \E ok \in BOOLEAN : CreateTree(ok)
  \/ \E ok \in BOOLEAN : CreateCommit(ok)
  \/ \E ok \in BOOLEAN, listed \in RefListings : ListMatchingRefs(ok, listed)
  \/ \E ok \in BOOLEAN : WriteRef(ok)
  \/ \E ok \in BOOLEAN : GetDefaultBranch(ok)
  \/ \E ok \in BOOLEAN, prs \in PRListings : PullsList(ok, prs)
  \/ \E ok \in BOOLEAN : PullsUpdate(ok)
  \/ \E ok \in BOOLEAN : PullsCreate(ok)
  \/ PullsCreateThrows

Spec == Init /\ [][Next]_vars

----------------------------------------------------------------------------
(* The path filter on its own: a configured client classifies one path *)

FileEndingsInputs == {"", "PNG", "g,pn", " ,", "p, g"}

PathAlphabet == {"p", "n", "g", "P", "."}

FilterInit ==
  /\ pc = "filter"
  /\ \E input \in FileEndingsInputs : fileEndings = constructorFileEndings(input)
  /\ commitMessage = constructorCommitMessage("")
  /\ fpath \in StringsUpTo(PathAlphabet, MaxPathLen)
  /\ fresult = <<>>
  /\ RunIdle
  /\ EnumIdle
  /\ QuoteIdle

ApplyIsImageFile ==
  /\ pc = "filter"
  /\ fresult = <<>>
  /\ fresult' = <<isImageFile(fileEndings, fpath)>>
  /\ UNCHANGED <<pc, configVars, images, calls, errKind, loopVars, commitVars,
                 prVars, fpath, enumVars, quoteVars>>

FilterNext == ApplyIsImageFile

FilterSpec == FilterInit /\ [][FilterNext]_vars

----------------------------------------------------------------------------
(* Properties *)

RemoteWriteOps ==
  {"createBlob", "createTree", "createCommit", "createRef", "updateRef",
   "pullsCreate", "pullsUpdate"}

\* the calls of the given kinds, in the order they were issued
CallsOf(ops) == SelectSeq(calls, LAMBDA c : c.op \in ops)

NoRemoteWrite == CallsOf(RemoteWriteOps) = <<>>

\* the open-PR search answered and the run has left the PR write behind
UpsertSettled ==
  /\ pc \in {"done", "failed"}
  /\ calls # <<>>
  /\ \/ calls[Len(calls)].op \in {"pullsCreate", "pullsUpdate"}
     \/ calls[Len(calls)].op = "pullsList" /\ calls[Len(calls)].ok

\* C1: when images were found, the loop is over and nothing was accepted, no
\* create-blob, create-tree, create-commit, ref or pull-request call is made.
C1_NoWriteWhenNothingAccepted ==
  (Len(images) > 0 /\ idx > Len(images) /\ compressedImages = <<>>)
    => NoRemoteWrite

\* C2: when the open-PR search holds no pull request of this owner, repository
\* and branch, whatever the list, exactly one create call from the branch into
\* the default branch with the report and the title is issued and
\* upsertPullRequest throws nothing itself.
C2_CreateWhenNoMatch ==
  (UpsertSettled /\ \A i \in 1..Len(existingPRs) :
                      ~(/\ existingPRs[i].owner = ContextOwner
                        /\ existingPRs[i].repo = ContextRepo
                        /\ existingPRs[i].ref = processingOptions.branch))
    => /\ Len(CallsOf({"pullsCreate"})) = 1
       /\ LET c == CallsOf({"pullsCreate"})[1]
          IN /\ c.head = processingOptions.branch
             /\ c.base = defaultBranch
             /\ c.body = buildPRText(compressedImages)
             /\ c.title = "Compress Images"
       /\ errKind \in {"none", "ApiError"}

\* the substring after the final '.' of a path that holds one
suffixAfterFinalDot(path) == SubSeq(path, LastIndexOf(path, ".") + 1, Len(path))

\* C3: isImageFile(p) is true iff p holds a '.' and the lowercased substring
\* after its final '.' is one of the configured endings; a path with no '.'
\* is never an image.
C3_ImageIffSuffixConfigured ==
  fresult # <<>> =>
    (fresult[1] <=>
       /\ LastIndexOf(fpath, ".") # 0
       /\ \E i \in 1..Len(fileEndings) :
            fileEndings[i] = toLowerCase(suffixAfterFinalDot(fpath)))

\* C4: when both sizes of a compressed candidate are known, its result is
\* appended to compressedImages iff sizeAfter < sizeBefore and
\* sizeBefore - sizeAfter >= threshold, and is dropped otherwise; either way
\* the loop moves to the next image without an error. The two tests of the
\* loop agree with that condition for every threshold.
C4_AcceptIffSavings ==
  [][(pc = "stats" /\ pc' # "stats" /\ pc' # "failed") =>
       LET worth == /\ sizeAfter < sizeBefore
                    /\ sizeBefore - sizeAfter >= processingOptions.threshold
       IN /\ worth => compressedImages' =
                        Append(compressedImages,
                               [repoPath |-> images[idx].repoPath,
                                localPath |-> outFile,
                                sizeBefore |-> sizeBefore, sizeAfter |-> sizeAfter])
          /\ ~worth => compressedImages' = compressedImages
          /\ sizeAfter >= sizeBefore => compressedImages' = compressedImages
          /\ pc' = "loop" /\ idx' = idx + 1 /\ errKind' = "none"
          /\ \A t \in 0..MaxThreshold :
               accepts(sizeBefore, sizeAfter, t)
                 <=> (sizeAfter < sizeBefore /\ sizeBefore - sizeAfter >= t)]_vars

\* one result was kept and one dropped
C4_Witness ==
  /\ pc = "loop"
  /\ idx = 3
  /\ Len(compressedImages) = 1

RefWriteOps == {"createRef", "updateRef"}

\* C5: after the commit is created, a listing that holds refs/heads/<branch>
\* itself leads to one forced update of that ref to the new commit and no
\* create; a listing without it (whatever else it holds) leads to one create
\* of refs/heads/<branch> at the new commit and no update.
C5_UpdateIffExactRefListed ==
  /\ (pc # "writeRef" /\ \E i \in 1..Len(calls) :
                            calls[i].op = "listMatchingRefs" /\ calls[i].ok)
       => Len(CallsOf(RefWriteOps)) = 1
  /\ \A i \in 1..Len(CallsOf(RefWriteOps)) :
       LET c == CallsOf(RefWriteOps)[i]
       IN /\ i = 1
          /\ c.sha = commitSha /\ commitSha = "commit1"
          /\ c.owner = ContextOwner /\ c.repo = ContextRepo
          /\ IF ("refs/heads/" \o processingOptions.branch) \in refs
             THEN c.op = "updateRef" /\ c.force
                  /\ "refs/" \o c.ref = "refs/heads/" \o processingOptions.branch
             ELSE c.op = "createRef"
                  /\ c.ref = "refs/heads/" \o processingOptions.branch

\* only a ref that shares the branch name as a prefix was listed, and the
\* branch was created
C5_Witness ==
  /\ refs = {"refs/heads/vips-old"}
  /\ Len(CallsOf(RefWriteOps)) = 1
  /\ CallsOf(RefWriteOps)[1].op = "createRef"
  /\ CallsOf(RefWriteOps)[1].ok

\* owner, repository and branch of a listed pull request are the run's own
SameHead(d) ==
  /\ d.owner = ContextOwner
  /\ d.repo = ContextRepo
  /\ d.ref = processingOptions.branch

\* C6: when the open-PR search holds a pull request whose head owner, head
\* repository and head ref are the run's own, that pull request gets the one
\* update (body and title) and no create call is made; a pull request that
\* differs in one of the three is never updated.
C6_UpdateExactMatchOnly ==
  /\ (UpsertSettled /\ \E i \in 1..Len(existingPRs) : SameHead(existingPRs[i]))
       => /\ Len(CallsOf({"pullsUpdate"})) = 1
          /\ CallsOf({"pullsCreate"}) = <<>>
          /\ CallsOf({"pullsUpdate"})[1].body = buildPRText(compressedImages)
          /\ CallsOf({"pullsUpdate"})[1].title = "Compress Images"
  /\ \A k \in 1..Len(CallsOf({"pullsUpdate"})) :
       \E i \in 1..Len(existingPRs) :
         /\ existingPRs[i].number = CallsOf({"pullsUpdate"})[k].pull_number
         /\ SameHead(existingPRs[i])

\* a fork's pull request with the same branch name is listed first, the run's
\* own second, and the update went to the run's own
C6_Witness ==
  /\ pc = "done"
  /\ Len(existingPRs) = 2
  /\ existingPRs[1].owner = "fork"
  /\ SameHead(existingPRs[2])
  /\ Len(CallsOf({"pullsUpdate"})) = 1
  /\ CallsOf({"pullsUpdate"})[1].pull_number = existingPRs[2].number

\* C7: when the enumeration answers and yields no image, the run ends without
\* an error, no compressor was started and nothing was written remotely.
C7_NoImagesEndsRun ==
  (calls # <<>> /\ calls[1].ok /\ images = <<>>)
    => /\ pc = "done"
       /\ errKind = "none"
       /\ spawned = <<>> /\ procs = {} /\ outFile = ""
       /\ NoRemoteWrite
       /\ Len(calls) = 1

C7_Witness ==
  /\ pc = "done"
  /\ images = <<>>
  /\ calls # <<>>
  /\ calls[1].ok

\* C8: once the compressor of a candidate closed with a non-zero code or was
\* killed, the run is over: no later candidate is compressed, the failed
\* candidate's output is not among the accepted results, and no remote write
\* is made.
C8_CompressorFailureAborts ==
  errKind = "reject"
    => /\ pc = "failed"
       /\ procs = {}
       /\ Len(spawned) = idx /\ spawned[idx] = idx
       /\ idx <= Len(images)
       /\ \A i \in 1..Len(compressedImages) :
            /\ compressedImages[i].localPath # outFile
            /\ compressedImages[i].repoPath # images[idx].repoPath
       /\ NoRemoteWrite
       /\ Len(calls) = 1

\* the first of two candidates was killed by the timeout
C8_Witness ==
  /\ errKind = "reject"
  /\ closeCause = "timeout"
  /\ idx = 1
  /\ Len(images) = 2

\* C9: a timeout is reported as a failure whose error value tells a timeout
\* apart from every other way the child can end, and the output path of that
\* invocation is never returned.
C9_TimeoutIdentified ==
  /\ closeCause = "timeout"
       => /\ errKind = "reject" /\ pc = "failed"
          /\ errCode \notin ExitCodes
          /\ \A i \in 1..Len(compressedImages) :
               compressedImages[i].localPath # outFile
  /\ (errKind = "reject" /\ errCode = NullCode) => closeCause = "timeout"

\* C10: at most one compressor runs at a time, and the compressor of a
\* candidate is spawned only after the compressor of the one before it closed
\* and both size reads of that one completed.
C10_OneCompressorAtATime ==
  /\ Cardinality(procs) <= 1
  /\ \A k \in 1..Len(spawned) : spawned[k] = k
  /\ \A p \in procs : p.image = spawned[Len(spawned)]
  /\ \A k \in 1..Len(spawned) :
       \A j \in 1..(spawned[k] - 1) :
         /\ \A p \in procs : p.image # j
         /\ <<j, "before">> \in statsDone
         /\ <<j, "after">> \in statsDone

\* the second candidate's compressor runs
C10_Witness ==
  /\ pc = "running"
  /\ Len(spawned) = 2
  /\ procs # {}

\* C11: a remote write is issued only once every enumerated candidate has been
\* compressed and kept or dropped, and no compressor is spawned or running
\* from the first remote write on.
C11_PublicationAfterLoop ==
  ~NoRemoteWrite
    => /\ idx = Len(images) + 1
       /\ spawned = [k \in 1..Len(images) |-> k]
       /\ procs = {}
       /\ \A k \in 1..Len(images) :
            /\ <<k, "before">> \in statsDone
            /\ <<k, "after">> \in statsDone
       /\ pc \notin {"loop", "tmpfile", "running", "stats"}

\* two candidates were compressed, one kept, and the PR write is out
C11_Witness ==
  /\ Len(images) = 2
  /\ Len(compressedImages) = 1
  /\ Len(CallsOf({"pullsCreate", "pullsUpdate"})) = 1

\* the candidate's extension, lowercased, is none of .png, .jpeg, .jpg
UnsupportedCandidate(i) ==
  toLowerCase(extname(images[i].localPath)) \notin {".png", ".jpeg", ".jpg"}

\* C12: for a candidate whose lowercased extension is none of .png, .jpeg and
\* .jpg, compress throws the unsupported-format error once its temp file
\* exists, never spawns the compressor for it, and the run ends there: the
\* loop never passes the candidate and nothing is written remotely.
C12_UnsupportedFormatAborts ==
  /\ \A i \in 1..Len(images) :
       UnsupportedCandidate(i)
         => /\ idx <= i
            /\ Len(spawned) < i
            /\ \A p \in procs : p.image # i
            /\ \A k \in 1..Len(compressedImages) :
                 compressedImages[k].repoPath # images[i].repoPath
            /\ NoRemoteWrite
            /\ (idx = i /\ pc \notin {"loop", "tmpfile"})
                 => /\ pc = "failed"
                    /\ errKind \in {"UnsupportedFormat", "FsError"}
                    /\ errKind = "FsError" => outFile # initializeEmptyTempFile(
                                                i, extname(images[i].localPath))
  /\ errKind = "UnsupportedFormat"
       => /\ pc = "failed"
          /\ idx <= Len(images)
          /\ UnsupportedCandidate(idx)

\* the first of two candidates is a .gif and compress threw for it
C12_Witness ==
  /\ errKind = "UnsupportedFormat"
  /\ Len(images) = 2
  /\ idx = 1
  /\ images[1].repoPath = "c.gif"
  /\ spawned = <<>>

\* C13: for a non-empty accepted set, the n-th blob call carries the content of
\* the n-th accepted result; the tree call comes after one successful blob per
\* result, is based on the triggering commit and holds one 100644 entry per
\* result with the result's repoPath and the sha of its blob; the commit call
\* uses the sha of that tree, the triggering commit as only parent and the
\* configured message; there is one tree and one commit.
C13_BlobsTreeCommit ==
  compressedImages # <<>> =>
    LET blobs == CallsOf({"createBlob"})
        trees == CallsOf({"createTree"})
        commits == CallsOf({"createCommit"})
    IN /\ Len(blobs) <= Len(compressedImages)
       /\ \A k \in 1..Len(blobs) :
            /\ blobs[k].content = <<"base64", compressedImages[k].localPath>>
            /\ blobs[k].encoding = "base64"
            /\ k < Len(blobs) => blobs[k].ok
       /\ Len(trees) <= 1 /\ Len(commits) <= 1
       /\ \A i \in 1..Len(trees) :
            /\ Len(blobs) = Len(compressedImages)
            /\ \A k \in 1..Len(blobs) : blobs[k].ok
            /\ trees[i].base_tree = ContextSha
            /\ Len(trees[i].tree) = Len(compressedImages)
            /\ \A k \in 1..Len(compressedImages) :
                 /\ trees[i].tree[k].mode = "100644"
                 /\ trees[i].tree[k].type = "blob"
                 /\ trees[i].tree[k].path = compressedImages[k].repoPath
                 /\ trees[i].tree[k].sha = blobs[k].result
       /\ \A i \in 1..Len(commits) :
            /\ Len(trees) = 1 /\ trees[1].ok
            /\ commits[i].tree = trees[1].result
            /\ commits[i].parents = <<ContextSha>>
            /\ commits[i].message = commitMessage
       /\ pc \in {"listMatchingRefs", "writeRef", "getDefaultBranch", "pullsList",
                  "pullsWrite", "done"}
            => Len(commits) = 1 /\ commits[1].ok

\* two results were accepted and the commit was created with a configured message
C13_Witness ==
  /\ Len(compressedImages) = 2
  /\ pc = "listMatchingRefs"
  /\ commitMessage = "squash pngs"
  /\ Len(CallsOf({"createBlob"})) = 2

----------------------------------------------------------------------------
(* The change enumerator on its own: one list of change records, one call *)

ChangeStatuses ==
  {"added", "removed", "modified", "renamed", "copied", "changed", "unchanged"}

ChangeFilenames == {"a.png", "b.JPG", "d.txt"}

\* lists of change records, one record per file at most
ChangeListings ==
  {l \in UNION {[1..n -> [filename : ChangeFilenames, status : ChangeStatuses]] :
                  n \in 0..MaxChanges} :
     \A i, j \in 1..Len(l) : l[i].filename = l[j].filename => i = j}

EnumInit ==
  /\ pc = "enumerate"
  /\ fileEndings = constructorFileEndings("")
  /\ commitMessage = constructorCommitMessage("")
  /\ echanges \in ChangeListings
  /\ emode \in [op : {"listChangedImageFiles", "listCommitImageFiles"},
                pullRequest : BOOLEAN, filesDefined : BOOLEAN]
  /\ emode.op = "listCommitImageFiles" => ~emode.pullRequest
  /\ emode.pullRequest => emode.filesDefined
  /\ eresult = <<>>
  /\ RunIdle
  /\ FilterIdle
  /\ QuoteIdle

\* listChangedImageFiles() in a pull-request or a push context
ListChangedImageFiles ==
  /\ pc = "enumerate"
  /\ emode.op = "listChangedImageFiles"
  /\ eresult = <<>>
  /\ eresult' = <<listChangedImageFiles(fileEndings, emode.pullRequest,
                                        emode.filesDefined, echanges)>>
  /\ UNCHANGED <<pc, configVars, images, calls, errKind, loopVars, commitVars,
                 prVars, filterVars, echanges, emode, quoteVars>>

\* #listCommitImageFiles(sha, true): every file of the commit
ListCommitImageFilesAll ==
  /\ pc = "enumerate"
  /\ emode.op = "listCommitImageFiles"
  /\ eresult = <<>>
  /\ eresult' = <<listCommitImageFiles(fileEndings, emode.filesDefined, echanges, TRUE)>>
  /\ UNCHANGED <<pc, configVars, images, calls, errKind, loopVars, commitVars,
                 prVars, filterVars, echanges, emode, quoteVars>>

EnumNext == ListChangedImageFiles \/ ListCommitImageFilesAll

EnumSpec == EnumInit /\ [][EnumNext]_vars

\* the status the change record of a yielded entry had
StatusOf(repoPath) ==
  {echanges[i].status : i \in {j \in 1..Len(echanges) : echanges[j].filename = repoPath}}

\* C14: an enumeration of every file of the commit yields no entry whose
\* status was "removed"; an enumeration of the changed files, of a pull
\* request or of a commit, yields only entries whose status was "added" or
\* "changed"; every yielded entry passes isImageFile and carries its path and
\* the path resolved against the workspace.
C14_EnumerationScopes ==
  eresult # <<>> =>
    \A k \in 1..Len(eresult[1]) :
      LET r == eresult[1][k]
      IN /\ StatusOf(r.repoPath) # {}
         /\ emode.op = "listCommitImageFiles" => "removed" \notin StatusOf(r.repoPath)
         /\ emode.op = "listChangedImageFiles"
              => StatusOf(r.repoPath) \subseteq {"added", "changed"}
         /\ isImageFile(fileEndings, r.repoPath)
         /\ r.localPath = workspace \o "/" \o r.repoPath
         /\ \A m \in 1..Len(eresult[1]) : eresult[1][m].repoPath = r.repoPath => m = k

\* a pull request with an added and a removed image: the added one is yielded
C14_Witness ==
  /\ emode.op = "listChangedImageFiles"
  /\ emode.pullRequest
  /\ Len(echanges) = 2
  /\ echanges[1].status = "removed"
  /\ echanges[2].status = "added"
  /\ eresult = <<<<[repoPath |-> echanges[2].filename,
                    localPath |-> "/w/" \o echanges[2].filename]>>>>

----------------------------------------------------------------------------
(* The argument string of compress on its own: one input path, one call *)

QuoteAlphabet == {"a", "'", "$", "&"}

QuoteExtensions == {".png", ".jpg"}

\* file names under the workspace: every short name over the alphabet, and
\* the two names that are a placeholder text
QuoteNames ==
  (StringsUpTo(QuoteAlphabet, MaxQuoteLen) \ {""}) \cup {placeholderIn, placeholderOut}

QuoteInit ==
  /\ pc = "quote"
  /\ fileEndings = constructorFileEndings("")
  /\ commitMessage = constructorCommitMessage("")
  /\ \E name \in QuoteNames, ext \in QuoteExtensions :
       qin = workspace \o "/" \o name \o ext
  /\ qout = ""
  /\ qargs = <<>>
  /\ RunIdle
  /\ FilterIdle
  /\ EnumIdle

\* compress up to the spawn: the temporary file, then the args string
BuildArgs ==
  /\ pc = "quote"
  /\ qargs = <<>>
  /\ vipsSupports(extname(qin))
  /\ qout' = initializeEmptyTempFile(1, extname(qin))
  /\ qargs' = <<compressArgs(qin, qout', processingOptions)>>
  /\ UNCHANGED <<pc, configVars, images, calls, errKind, loopVars, commitVars,
                 prVars, filterVars, enumVars, qin>>

QuoteNext == BuildArgs

QuoteSpec == QuoteInit /\ [][QuoteNext]_vars

\* a path wrapped in single quotes, each single quote inside written '\''
RECURSIVE ShellQuotedBody(_)
ShellQuotedBody(path) ==
  IF path = "" THEN ""
  ELSE (IF Head(path) = "'" THEN "'\\''" ELSE Head(path)) \o ShellQuotedBody(Tail(path))

ShellQuoted(path) == "'" \o ShellQuotedBody(path) \o "'"

\* the argument template with the two placeholders filled in verbatim
ArgsWith(template, quotedIn, quotedOut) ==
  LET i == IndexOfString(template, placeholderIn)
      j == IndexOfString(template, placeholderOut)
  IN SubSeq(template, 1, i - 1) \o quotedIn
     \o SubSeq(template, i + Len(placeholderIn), j - 1) \o quotedOut
     \o SubSeq(template, j + Len(placeholderOut), Len(template))

\* C15: whatever the input and output paths hold, the argument string has the
\* quoted input path where the template has the input placeholder, the quoted
\* output path where it has the output placeholder, and the template's text
\* everywhere else.
C15_ArgsHoldQuotedPaths ==
  qargs # <<>> =>
    qargs[1] = ArgsWith(vipsArgs(extname(qin), processingOptions),
                        ShellQuoted(qin), ShellQuoted(qout))

----------------------------------------------------------------------------
(* The order of the publication steps *)

PRWriteOps == {"pullsCreate", "pullsUpdate"}

\* the position of a remote call in the publication
StageOf(op) ==
  CASE op = "createBlob" -> 1
    [] op = "createTree" -> 2
    [] op = "createCommit" -> 3
    [] op = "listMatchingRefs" -> 4
    [] op \in RefWriteOps -> 5
    [] op = "reposGet" -> 6
    [] op = "pullsList" -> 7
    [] op \in PRWriteOps -> 8
    [] OTHER -> 0

\* C16: the remote calls of the publication are made in the order blobs,
\* tree, commit, ref lookup, one ref write, default-branch lookup, PR search,
\* one PR write; a call is made only when the one before it succeeded, and a
\* failed call ends the run; a PR write is made only after a successful ref
\* write set the branch to the new commit; a failure leaves the calls made
\* before it as they are, nothing is deleted.
C16_PublicationOrder ==
  LET pub == SelectSeq(calls, LAMBDA c : c.op # "getTree")
      refWrites == CallsOf(RefWriteOps)
      prWrites == CallsOf(PRWriteOps)
      commits == CallsOf({"createCommit"})
  IN /\ \A i \in 1..Len(pub) : StageOf(pub[i].op) \in 1..8
     /\ pub # <<>> => StageOf(pub[1].op) \in {1, 2}
     /\ \A i \in 1..(Len(pub) - 1) :
          /\ pub[i].ok
          /\ \/ StageOf(pub[i + 1].op) = StageOf(pub[i].op) + 1
             \/ StageOf(pub[i].op) = 1 /\ StageOf(pub[i + 1].op) = 1
     /\ (pub # <<>> /\ ~pub[Len(pub)].ok) => pc = "failed"
     /\ CallsOf({"createTree"}) # <<>>
          => Len(CallsOf({"createBlob"})) = Len(compressedImages)
     /\ Len(refWrites) <= 1
     /\ Len(prWrites) <= 1
     /\ prWrites # <<>> =>
          /\ Len(refWrites) = 1
          /\ refWrites[1].ok
          /\ refWrites[1].sha = commits[1].result
          /\ refWrites[1].force
     /\ (pc = "done" /\ pub # <<>>) =>
          /\ Len(refWrites) = 1
          /\ Len(prWrites) = 1
          /\ prWrites[1].ok

\* a run that published two images to its end
C16_Witness ==
  /\ pc = "done"
  /\ Len(CallsOf({"createBlob"})) = 2
  /\ Len(CallsOf(RefWriteOps)) = 1
  /\ Len(CallsOf(PRWriteOps)) = 1
  /\ CallsOf(PRWriteOps)[1].ok

====
